---- MODULE Spec2Model ----
(***************************************************************************)
(* Budget-period and expense-aggregation engine of ai-budget-backend:      *)
(* BudgetSettings.getCurrentPeriod, Expense.getStatistics, and the request *)
(* handlers getBudgetSummary, getBudgetHistory, getExpensesStatistics,     *)
(* createOrUpdateSettings, deleteSettings, updateCategories and the        *)
(* expense writes, with the two collections they read and write.           *)
(*                                                                         *)
(* Requests.  A handler is a sequence of steps, one per awaited store      *)
(* operation; steps of different requests interleave freely.  The          *)
(* BudgetSettings collection is a sequence of documents and its unique     *)
(* index on userId is an operation of the store, not of the handlers.      *)
(*                                                                         *)
(* Time.  A JavaScript Date is modelled in local time as a record          *)
(* [day, ms]: day is the ECMAScript day number (days since 1970-01-01) and *)
(* ms the millisecond within that day.  The local time zone is taken to    *)
(* have no daylight-saving shifts, so every local day has 86400000 ms.     *)
(* Months are 0-based as in JavaScript.                                    *)
(*                                                                         *)
(* Money.  Amounts are exact integers of the currency's smallest unit in   *)
(* use; floating-point rounding error of JavaScript Numbers is not         *)
(* modelled.  A percentage rounded to k decimals is the integer count of   *)
(* 10^-k percent.                                                          *)
(***************************************************************************)
EXTENDS Integers, Sequences, FiniteSets, TLC

\* ------------------------------------------------------------------ bounds

\* Number of consecutive days the reference clock is drawn from.
NumDays == 456

\* Number of consecutive days the clock is drawn from for history requests.
HistDays == 122

\* Number of consecutive days the clock is drawn from around the new year.
YearEndDays == 62

\* Largest explicit value of the history request's months query parameter.
MaxMonths == 3

\* ---------------------------------------------------------------- calendar

\* 23:59:59.999 as passed to the Date constructor for periodEnd.
EndOfDayMs == ((23 * 60 + 59) * 60 + 59) * 1000 + 999

Years == 2021 .. 2026

IsLeapYear(y) == (y % 4 = 0 /\ y % 100 # 0) \/ y % 400 = 0

DaysInMonth(y, m) ==
  IF m = 1 THEN (IF IsLeapYear(y) THEN 29 ELSE 28)
  ELSE IF m \in {3, 5, 8, 10} THEN 30 ELSE 31

\* ECMAScript DayFromYear: day number of January 1st of year y.
DayFromYear(y) ==
  365 * (y - 1970) + ((y - 1969) \div 4) - ((y - 1901) \div 100) + ((y - 1601) \div 400)

RECURSIVE DaysBeforeMonth(_, _)
DaysBeforeMonth(y, m) ==
  IF m = 0 THEN 0 ELSE DaysBeforeMonth(y, m - 1) + DaysInMonth(y, m - 1)

\* A day-of-month past the month's end clamped to the month's last day.
MakeDay_Clamped(y, m, d) ==
  LET ym == y + (m \div 12)
      mn == m % 12
      dm == IF d > DaysInMonth(ym, mn) THEN DaysInMonth(ym, mn) ELSE d
  IN  DayFromYear(ym) + DaysBeforeMonth(ym, mn) + dm - 1

\* ECMAScript MakeDay: the month is normalised into the year first, then the
\* day-of-month is added as an offset, so day 0 or a day past the month's end
\* rolls over into the neighbouring month.
MakeDay(y, m, d) ==
  LET ym == y + (m \div 12)
      mn == m % 12
  IN  DayFromYear(ym) + DaysBeforeMonth(ym, mn) + d - 1

\* The month reduced to 0..11 without carrying into the year.
NewDate_NoYearCarry(y, m, d, ms) == [day |-> MakeDay(y, m % 12, d), ms |-> ms]

\* new Date(y, m, d, 0, 0, 0, 0) and new Date(y, m, d, 23, 59, 59, 999)
NewDate(y, m, d, ms) == [day |-> MakeDay(y, m, d), ms |-> ms]

\* Date.prototype.getFullYear / getMonth / getDate
GetFullYear(t) == CHOOSE y \in Years : DayFromYear(y) <= t.day /\ t.day < DayFromYear(y + 1)

GetMonth(t) ==
  LET y == GetFullYear(t)
  IN  CHOOSE m \in 0 .. 11 :
        /\ MakeDay(y, m, 1) <= t.day
        /\ t.day < MakeDay(y, m + 1, 1)

GetDate(t) == t.day - MakeDay(GetFullYear(t), GetMonth(t), 1) + 1

\* Date comparison (as by $gte / $lte and by <=)
Before(a, b) == a.day < b.day \/ (a.day = b.day /\ a.ms < b.ms)
NotAfter(a, b) == a = b \/ Before(a, b)

\* The instant one millisecond after t.
NextMs(t) ==
  IF t.ms = EndOfDayMs THEN [day |-> t.day + 1, ms |-> 0]
  ELSE [day |-> t.day, ms |-> t.ms + 1]

\* ------------------------------------------------------- period calculator

\* getCurrentPeriod without the previous-month branch.
GetCurrentPeriod_NoPreviousMonth(startDay, t) ==
  [periodStart |-> NewDate(GetFullYear(t), GetMonth(t), startDay, 0),
   periodEnd   |-> NewDate(GetFullYear(t), GetMonth(t) + 1, startDay - 1, EndOfDayMs)]

\* getCurrentPeriod comparing with > instead of >=.
GetCurrentPeriod_StrictCompare(startDay, t) ==
  IF GetDate(t) > startDay
  THEN [periodStart |-> NewDate(GetFullYear(t), GetMonth(t), startDay, 0),
        periodEnd   |-> NewDate(GetFullYear(t), GetMonth(t) + 1, startDay - 1, EndOfDayMs)]
  ELSE [periodStart |-> NewDate(GetFullYear(t), GetMonth(t) - 1, startDay, 0),
        periodEnd   |-> NewDate(GetFullYear(t), GetMonth(t), startDay - 1, EndOfDayMs)]

\* getCurrentPeriod with both periodEnd expressions built on day startDay
\* instead of startDay - 1.
GetCurrentPeriod_EndOnAnchor(startDay, t) ==
  IF GetDate(t) >= startDay
  THEN [periodStart |-> NewDate(GetFullYear(t), GetMonth(t), startDay, 0),
        periodEnd   |-> NewDate(GetFullYear(t), GetMonth(t) + 1, startDay, EndOfDayMs)]
  ELSE [periodStart |-> NewDate(GetFullYear(t), GetMonth(t) - 1, startDay, 0),
        periodEnd   |-> NewDate(GetFullYear(t), GetMonth(t), startDay, EndOfDayMs)]

\* BudgetSettingsSchema.methods.getCurrentPeriod, with now = t and
\* startDay = this.monthStart.getDate().
GetCurrentPeriod(startDay, t) ==
  IF GetDate(t) >= startDay
  THEN [periodStart |-> NewDate(GetFullYear(t), GetMonth(t), startDay, 0),
        periodEnd   |-> NewDate(GetFullYear(t), GetMonth(t) + 1, startDay - 1, EndOfDayMs)]
  ELSE [periodStart |-> NewDate(GetFullYear(t), GetMonth(t) - 1, startDay, 0),
        periodEnd   |-> NewDate(GetFullYear(t), GetMonth(t), startDay - 1, EndOfDayMs)]

\* The loop's period ending at 00:00:00.000 of its last day.
HistoryPeriod_EndAtMidnight(startDay, t, i) ==
  [periodStart |-> NewDate(GetFullYear(t), GetMonth(t) - i, startDay, 0),
   periodEnd   |-> NewDate(GetFullYear(t), GetMonth(t) - i + 1, startDay - 1, 0)]

\* The loop's period ending on the anchor day itself.
HistoryPeriod_EndOnAnchor(startDay, t, i) ==
  [periodStart |-> NewDate(GetFullYear(t), GetMonth(t) - i, startDay, 0),
   periodEnd   |-> NewDate(GetFullYear(t), GetMonth(t) - i + 1, startDay, EndOfDayMs)]

\* The period of iteration i of getBudgetHistory's loop.
HistoryPeriod(startDay, t, i) ==
  [periodStart |-> NewDate(GetFullYear(t), GetMonth(t) - i, startDay, 0),
   periodEnd   |-> NewDate(GetFullYear(t), GetMonth(t) - i + 1, startDay - 1, EndOfDayMs)]

\* ------------------------------------------------------------------- state

Users == {"A", "B"}

Null == [kind |-> "null"]

\* BudgetSettingsSchema's default categories.
DefaultCategories == {"Food", "Transport", "Entertainment", "Shopping", "Health", "Other"}

VARIABLES
  now,          \* the wall clock, read by new Date()
  settings,     \* the BudgetSettings collection: sequence of documents
  expenses,     \* the Expense collection: sequence of documents in natural order
  summaryReq,   \* per user, the getBudgetSummary request in flight
  historyReq,   \* per user, the getBudgetHistory request in flight
  statsReq,     \* per user, the last getExpensesStatistics request
  settingsReq   \* the createOrUpdateSettings requests, one per slot

vars == <<now, settings, expenses, summaryReq, historyReq, statsReq, settingsReq>>

IdleSummary == [pc |-> "idle", settings |-> Null, now |-> Null, period |-> Null, res |-> Null]

IdleHistory ==
  [pc |-> "idle", query |-> Null, months |-> 0, settings |-> Null, now |-> Null, startDay |-> 0,
   i |-> 0, history |-> <<>>, lookups |-> 0, res |-> Null]

IdleStats == [pc |-> "idle", res |-> Null]

\* Number of createOrUpdateSettings requests; each slot carries one request.
NumSlots == 2
Slots == 1 .. NumSlots

IdleSettings ==
  [pc |-> "idle", userId |-> Null, body |-> Null, found |-> Null, doc |-> Null, res |-> Null]

\* ------------------------------------------------------ settings collection

\* Position of the first BudgetSettings document of user u, 0 when none.
SettingsIndex(u) ==
  IF \E k \in 1 .. Len(settings) : settings[k].userId = u
  THEN CHOOSE k \in 1 .. Len(settings) :
         /\ settings[k].userId = u
         /\ \A j \in 1 .. (k - 1) : settings[j].userId # u
  ELSE 0

\* BudgetSettings.findOne({userId: u})
FindOneSettings(u) ==
  IF SettingsIndex(u) = 0 THEN Null ELSE settings[SettingsIndex(u)]

\* -------------------------------------------------------------- aggregation

\* Expense.find without userId in its filter.
FindExpenses_AnyUser(u, periodStart, periodEnd) ==
  SelectSeq(expenses, LAMBDA e : /\ NotAfter(periodStart, e.date)
                                 /\ NotAfter(e.date, periodEnd))

\* Expense.find with $lt instead of $lte for the period's end.
FindExpenses_EndExclusive(u, periodStart, periodEnd) ==
  SelectSeq(expenses, LAMBDA e : /\ e.userId = u
                                 /\ NotAfter(periodStart, e.date)
                                 /\ Before(e.date, periodEnd))

\* Expense.find({userId, date: {$gte: periodStart, $lte: periodEnd}})
FindExpenses(u, periodStart, periodEnd) ==
  SelectSeq(expenses, LAMBDA e : /\ e.userId = u
                                 /\ NotAfter(periodStart, e.date)
                                 /\ NotAfter(e.date, periodEnd))

\* expenses.reduce((sum, expense) => sum + expense.amount, 0)
RECURSIVE TotalSpent(_)
TotalSpent(es) ==
  IF es = <<>> THEN 0
  ELSE TotalSpent(SubSeq(es, 1, Len(es) - 1)) + es[Len(es)].amount

\* expense.category || 'Other'
CategoryOf(e) == IF e.category = "" THEN "Other" ELSE e.category

\* The category bucket overwritten instead of accumulated.
AddToCategory_Overwrite(acc, e) ==
  [c \in DOMAIN acc \cup {CategoryOf(e)} |->
     IF c = CategoryOf(e) THEN e.amount ELSE acc[c]]

\* acc[category] = (acc[category] || 0) + expense.amount
AddToCategory(acc, e) ==
  LET category == CategoryOf(e)
  IN  IF category \in DOMAIN acc
      THEN [acc EXCEPT ![category] = @ + e.amount]
      ELSE [c \in DOMAIN acc \cup {category} |->
              IF c = category THEN e.amount ELSE acc[c]]

\* expenses.reduce((acc, expense) => {...}, {})
RECURSIVE SpentByCategory(_)
SpentByCategory(es) ==
  IF es = <<>> THEN [c \in {} |-> 0]
  ELSE AddToCategory(SpentByCategory(SubSeq(es, 1, Len(es) - 1)), es[Len(es)])

\* settings.monthlyBudget - totalSpent
Remaining(monthlyBudget, totalSpent) == monthlyBudget - totalSpent

\* The unrounded percentUsed, as the exact fraction num / den percent.
PercentUsed(monthlyBudget, totalSpent) ==
  IF monthlyBudget > 0
  THEN [num |-> totalSpent * 100, den |-> monthlyBudget]
  ELSE [num |-> 0, den |-> 1]

\* Math.round(x): the integer nearest to x, ties towards +Infinity; x = n / d >= 0.
MathRound(n, d) == (2 * n + d) \div (2 * d)

\* Math.floor instead of Math.round.
RoundedPercentUsed_Floor(p) == (p.num * 100) \div p.den

\* Math.round(percentUsed * 100) / 100, in hundredths of a percent.
RoundedPercentUsed(p) == MathRound(p.num * 100, p.den)

\* The percentage cut to one decimal place instead of rounded.
ToFixed1_Truncate(p) == (p.num * 10) \div p.den

\* percentUsed.toFixed(1), in tenths of a percent.
ToFixed1(p) == MathRound(p.num * 10, p.den)

\* The threshold compared with > instead of >=.
ShouldNotify_Strict(notifications, p) ==
  notifications.enabled /\ p.num > notifications.thresholdPercent * p.den

\* settings.notifications.enabled && percentUsed >= settings.notifications.thresholdPercent
ShouldNotify(notifications, p) ==
  notifications.enabled /\ p.num >= notifications.thresholdPercent * p.den

\* shouldNotify ? `... ${percentUsed.toFixed(1)}% ...` : null
NotificationMessage(shouldNotify, p) ==
  IF shouldNotify THEN [kind |-> "message", percent |-> ToFixed1(p)] ELSE Null

\* The summary object of getBudgetSummary's response.
Summary(s, period, es) ==
  LET totalSpent   == TotalSpent(es)
      percentUsed  == PercentUsed(s.monthlyBudget, totalSpent)
      shouldNotify == ShouldNotify(s.notifications, percentUsed)
  IN  [monthlyBudget       |-> s.monthlyBudget,
       totalSpent          |-> totalSpent,
       remaining           |-> Remaining(s.monthlyBudget, totalSpent),
       percentUsed         |-> RoundedPercentUsed(percentUsed),
       period              |-> [start |-> period.periodStart, end |-> period.periodEnd],
       spentByCategory     |-> SpentByCategory(es),
       expensesCount       |-> Len(es),
       shouldNotify        |-> shouldNotify,
       notificationMessage |-> NotificationMessage(shouldNotify, percentUsed)]

\* ---------------------------------------------------- Expense.getStatistics

\* The $match stage: the user's documents dated from startDate to endDate,
\* both included.
MatchExpenses(u, startDate, endDate) ==
  SelectSeq(expenses, LAMBDA e : /\ e.userId = u
                                 /\ NotAfter(startDate, e.date)
                                 /\ NotAfter(e.date, endDate))

\* {$sum: '$amount'}
RECURSIVE SumAmount(_)
SumAmount(es) ==
  IF es = <<>> THEN 0 ELSE es[1].amount + SumAmount(Tail(es))

\* The amount of the first document taken for the smallest.
MinAmount_First(es) == es[1].amount

\* {$min: '$amount'} of a non-empty group.
MinAmount(es) ==
  CHOOSE a \in {es[k].amount : k \in 1 .. Len(es)} :
    \A k \in 1 .. Len(es) : a <= es[k].amount

\* {$max: '$amount'} of a non-empty group.
MaxAmount(es) ==
  CHOOSE a \in {es[k].amount : k \in 1 .. Len(es)} :
    \A k \in 1 .. Len(es) : a >= es[k].amount

\* The $group stage with _id null: one result document when any document
\* matched, no result document otherwise.  avgAmount is the exact fraction
\* num / den.
GroupStatistics(es) ==
  IF es = <<>> THEN <<>>
  ELSE <<[totalAmount |-> SumAmount(es),
          avgAmount   |-> [num |-> SumAmount(es), den |-> Len(es)],
          minAmount   |-> MinAmount(es),
          maxAmount   |-> MaxAmount(es),
          count       |-> Len(es)]>>

\* The object returned in place of a missing result document.
ZeroStatistics ==
  [totalAmount |-> 0, avgAmount |-> [num |-> 0, den |-> 1],
   minAmount |-> 0, maxAmount |-> 0, count |-> 0]

\* result[0] returned as it is, undefined when nothing matched.
GetStatistics_NoDefault(u, startDate, endDate) ==
  LET result == GroupStatistics(MatchExpenses(u, startDate, endDate))
  IN  IF result = <<>> THEN Null ELSE result[1]

\* Expense.getStatistics(userId, startDate, endDate): result[0] || {zeros}
GetStatistics(u, startDate, endDate) ==
  LET result == GroupStatistics(MatchExpenses(u, startDate, endDate))
  IN  IF result = <<>> THEN ZeroStatistics ELSE result[1]

\* ---------------------------------------------------- getExpensesStatistics

\* The period of the statistics: from startDate to the last millisecond of
\* endDate when the query gives both, the calendar month of now otherwise.
StatisticsPeriod(q, t) ==
  IF q # Null
  THEN [start |-> q.startDate, end |-> [q.endDate EXCEPT !.ms = EndOfDayMs]]
  ELSE [start |-> NewDate(GetFullYear(t), GetMonth(t), 1, 0),
        end   |-> NewDate(GetFullYear(t), GetMonth(t) + 1, 0, EndOfDayMs)]

\* getExpensesStatistics: the period is computed, the aggregation awaited and
\* the response sent.
GetExpensesStatistics(u, q) ==
  LET period == StatisticsPeriod(q, now)
  IN  /\ statsReq' = [statsReq EXCEPT ![u] =
           [pc  |-> "done",
            res |-> [status |-> 200, period |-> period,
                     statistics |-> GetStatistics(u, period.start, period.end)]]]
      /\ UNCHANGED <<now, settings, expenses, summaryReq, historyReq, settingsReq>>

\* The aggregation rejects: the catch block answers 500.
StatisticsFails(u) ==
  /\ statsReq' = [statsReq EXCEPT ![u] =
       [pc |-> "done", res |-> [status |-> 500, period |-> Null, statistics |-> Null]]]
  /\ UNCHANGED <<now, settings, expenses, summaryReq, historyReq, settingsReq>>

\* --------------------------------------------------------- getBudgetSummary

\* The handler without its if (!settings) return: getCurrentPeriod is called
\* on null and the TypeError is answered by the catch block.
SummaryFindSettings_NoCheck(u) ==
  /\ summaryReq[u].pc \in {"idle", "done"}
  /\ summaryReq' = [summaryReq EXCEPT ![u] =
       IF FindOneSettings(u) = Null
       THEN [pc |-> "done", settings |-> Null, now |-> Null, period |-> Null,
             res |-> [status |-> 500, summary |-> Null]]
       ELSE [pc |-> "findExpenses", settings |-> FindOneSettings(u), now |-> now,
             period |-> GetCurrentPeriod(FindOneSettings(u).monthStartDay, now),
             res |-> Null]]
  /\ UNCHANGED <<now, settings, expenses, historyReq, statsReq, settingsReq>>

\* await BudgetSettings.findOne({userId}); 404 when there is none, otherwise
\* settings.getCurrentPeriod() reads the clock and the expense query is issued.
SummaryFindSettings(u) ==
  /\ summaryReq[u].pc \in {"idle", "done"}
  /\ summaryReq' = [summaryReq EXCEPT ![u] =
       IF FindOneSettings(u) = Null
       THEN [pc |-> "done", settings |-> Null, now |-> Null, period |-> Null,
             res |-> [status |-> 404, summary |-> Null]]
       ELSE [pc |-> "findExpenses", settings |-> FindOneSettings(u), now |-> now,
             period |-> GetCurrentPeriod(FindOneSettings(u).monthStartDay, now),
             res |-> Null]]
  /\ UNCHANGED <<now, settings, expenses, historyReq, statsReq, settingsReq>>

\* await Expense.find(...) resolves; the totals are computed and res.json sent.
SummaryFindExpenses(u) ==
  /\ summaryReq[u].pc = "findExpenses"
  /\ LET r  == summaryReq[u]
         es == FindExpenses(u, r.period.periodStart, r.period.periodEnd)
     IN  summaryReq' = [summaryReq EXCEPT ![u] =
           [r EXCEPT !.pc = "done",
                     !.res = [status |-> 200, summary |-> Summary(r.settings, r.period, es)]]]
  /\ UNCHANGED <<now, settings, expenses, historyReq, statsReq, settingsReq>>

\* A store operation rejects: the catch block answers 500.
SummaryFails(u) ==
  /\ summaryReq[u].pc \in {"idle", "done", "findExpenses"}
  /\ summaryReq' = [summaryReq EXCEPT ![u] =
       [pc |-> "done", settings |-> Null, now |-> Null, period |-> Null,
        res |-> [status |-> 500, summary |-> Null]]]
  /\ UNCHANGED <<now, settings, expenses, historyReq, statsReq, settingsReq>>

\* --------------------------------------------------------- getBudgetHistory

\* const { months = 6 } = req.query
DefaultMonths == 6

\* req.query.months is a record q = [given, kind, value]: the parameter is
\* absent (given = FALSE), or its text reads, under Number(months), as the
\* integer value (kind "integer", e.g. "3"), as value + 0.5 (kind "half",
\* e.g. "2.5"), as NaN (kind "NaN", e.g. "abc" or a repeated parameter) or
\* as Infinity (kind "Infinity", e.g. "Infinity" or "1e999").
Months(n) == [given |-> TRUE, kind |-> "integer", value |-> n]
NoMonths == [given |-> FALSE, kind |-> "integer", value |-> 0]

\* The whole part of Number(months) of a query q, 0 when it is not finite.
MonthsOf(q) == IF q.given THEN q.value ELSE DefaultMonths

\* The entry built from the budget the collection holds at the iteration.
HistoryEntry_StoreBudget(s, period, es) ==
  LET totalSpent == TotalSpent(es)
      budget     == IF FindOneSettings(s.userId) # Null
                    THEN FindOneSettings(s.userId).monthlyBudget
                    ELSE s.monthlyBudget
  IN  [period        |-> [start |-> period.periodStart, end |-> period.periodEnd],
       monthlyBudget |-> budget,
       totalSpent    |-> totalSpent,
       remaining     |-> Remaining(budget, totalSpent),
       expensesCount |-> Len(es)]

\* The entry pushed by one iteration of the loop.
HistoryEntry(s, period, es) ==
  LET totalSpent == TotalSpent(es)
  IN  [period        |-> [start |-> period.periodStart, end |-> period.periodEnd],
       monthlyBudget |-> s.monthlyBudget,
       totalSpent    |-> totalSpent,
       remaining     |-> Remaining(s.monthlyBudget, totalSpent),
       expensesCount |-> Len(es)]

\* The loop condition with <= instead of <.
LoopContinues_Inclusive(i, q) ==
  IF ~q.given THEN i <= DefaultMonths
  ELSE CASE q.kind = "integer"  -> i <= q.value
         [] q.kind = "half"     -> i <= q.value
         [] q.kind = "NaN"      -> FALSE
         [] q.kind = "Infinity" -> TRUE

\* The loop condition i < Number(months), for the integer i: a comparison
\* with NaN is false and every integer is below Infinity.
LoopContinues(i, q) ==
  IF ~q.given THEN i < DefaultMonths
  ELSE CASE q.kind = "integer"  -> i < q.value
         [] q.kind = "half"     -> i <= q.value
         [] q.kind = "NaN"      -> FALSE
         [] q.kind = "Infinity" -> TRUE

\* await BudgetSettings.findOne({userId}); 404 when there is none, otherwise
\* now and startDay are read and the loop is entered: either its first expense
\* query is issued or, when the condition fails at i = 0, the (empty) history
\* is sent at once.
HistoryFindSettings(u, q) ==
  /\ historyReq[u].pc \in {"idle", "done"}
  /\ historyReq' = [historyReq EXCEPT ![u] =
       IF FindOneSettings(u) = Null
       THEN [IdleHistory EXCEPT !.pc = "done", !.query = q, !.months = MonthsOf(q),
                                !.res = [status |-> 404, history |-> <<>>]]
       ELSE IF LoopContinues(0, q)
       THEN [IdleHistory EXCEPT !.pc = "loop", !.query = q, !.months = MonthsOf(q),
                                !.settings = FindOneSettings(u), !.now = now,
                                !.startDay = FindOneSettings(u).monthStartDay,
                                !.lookups = 1]
       ELSE [IdleHistory EXCEPT !.pc = "done", !.query = q, !.months = MonthsOf(q),
                                !.settings = FindOneSettings(u), !.now = now,
                                !.startDay = FindOneSettings(u).monthStartDay,
                                !.res = [status |-> 200, history |-> <<>>]]]
  /\ UNCHANGED <<now, settings, expenses, summaryReq, statsReq, settingsReq>>

\* await Expense.find(...) of iteration i resolves: the entry is pushed, i++,
\* and the next query is issued or, after the last iteration, res.json sent.
HistoryLookup(u) ==
  /\ historyReq[u].pc = "loop"
  /\ LET r       == historyReq[u]
         period  == HistoryPeriod(r.startDay, r.now, r.i)
         es      == FindExpenses(u, period.periodStart, period.periodEnd)
         history == Append(r.history, HistoryEntry(r.settings, period, es))
     IN  historyReq' = [historyReq EXCEPT ![u] =
           IF LoopContinues(r.i + 1, r.query)
           THEN [r EXCEPT !.i = r.i + 1, !.history = history, !.lookups = r.lookups + 1]
           ELSE [r EXCEPT !.i = r.i + 1, !.history = history, !.pc = "done",
                          !.res = [status |-> 200, history |-> history]]]
  /\ UNCHANGED <<now, settings, expenses, summaryReq, statsReq, settingsReq>>

\* The catch block answering with the entries computed so far.
HistoryFails_Partial(u) ==
  /\ historyReq[u].pc \in {"idle", "done", "loop"}
  /\ historyReq' = [historyReq EXCEPT ![u] =
       [IdleHistory EXCEPT !.pc = "done", !.query = historyReq[u].query,
                           !.months = historyReq[u].months,
                           !.lookups = historyReq[u].lookups,
                           !.res = [status |-> 500, history |-> historyReq[u].history]]]
  /\ UNCHANGED <<now, settings, expenses, summaryReq, statsReq, settingsReq>>

\* A store operation rejects: the catch block answers 500 without the history.
HistoryFails(u) ==
  /\ historyReq[u].pc \in {"idle", "done", "loop"}
  /\ historyReq' = [historyReq EXCEPT ![u] =
       [IdleHistory EXCEPT !.pc = "done", !.query = historyReq[u].query,
                           !.months = historyReq[u].months,
                           !.lookups = historyReq[u].lookups,
                           !.res = [status |-> 500, history |-> <<>>]]]
  /\ UNCHANGED <<now, settings, expenses, summaryReq, statsReq, settingsReq>>

\* ------------------------------------------------------------ write path

\* Largest number of expense documents in the collection.
MaxExpenses == 2

\* createExpense: the category defaults to 'Other' and is checked against the
\* user's settings when there are any (400 otherwise); the date defaults to
\* now; the document is saved.
CreateExpense(u, body) ==
  LET validatedCategory == IF body.category = "" THEN "Other" ELSE body.category
  IN  /\ Len(expenses) < MaxExpenses
      /\ IF FindOneSettings(u) # Null /\ validatedCategory \notin FindOneSettings(u).categories
         THEN UNCHANGED expenses
         ELSE expenses' = Append(expenses,
                [userId   |-> u,
                 amount   |-> body.amount,
                 date     |-> IF body.date = Null THEN now ELSE body.date,
                 category |-> validatedCategory])
      /\ UNCHANGED <<now, settings, summaryReq, historyReq, statsReq, settingsReq>>

\* updateCategories: 400 unless categories is a non-empty array, 404 without
\* settings, otherwise the list is replaced.
UpdateCategories(u, categories) ==
  /\ categories # {}
  /\ FindOneSettings(u) # Null
  /\ settings' = [settings EXCEPT ![SettingsIndex(u)].categories = categories]
  /\ UNCHANGED <<now, expenses, summaryReq, historyReq, statsReq, settingsReq>>

\* updateExpense of the document at position i; body.fields names the fields
\* the request body defines.  404 unless the document belongs to u,
\* 400 when the category changes to one that is not in u's settings, otherwise
\* the fields given in the body are replaced and the document is saved.
UpdateExpense(u, i, body) ==
  /\ i \in 1 .. Len(expenses)
  /\ IF expenses[i].userId # u
     THEN UNCHANGED expenses
     ELSE IF /\ "category" \in body.fields
             /\ body.category # ""
             /\ body.category # expenses[i].category
             /\ FindOneSettings(u) # Null
             /\ body.category \notin FindOneSettings(u).categories
     THEN UNCHANGED expenses
     ELSE expenses' = [expenses EXCEPT ![i] =
            [userId   |-> u,
             amount   |-> IF "amount" \in body.fields THEN body.amount ELSE @.amount,
             date     |-> IF "date" \in body.fields THEN body.date ELSE @.date,
             category |-> IF "category" \in body.fields THEN body.category ELSE @.category]]
  /\ UNCHANGED <<now, settings, summaryReq, historyReq, statsReq, settingsReq>>

\* deleteExpense of the document at position i: findOneAndDelete with the
\* requesting user's id in the filter, 404 when it matches nothing.
DeleteExpense(u, i) ==
  /\ i \in 1 .. Len(expenses)
  /\ IF expenses[i].userId # u
     THEN UNCHANGED expenses
     ELSE expenses' = SubSeq(expenses, 1, i - 1) \o SubSeq(expenses, i + 1, Len(expenses))
  /\ UNCHANGED <<now, settings, summaryReq, historyReq, statsReq, settingsReq>>

\* ---------------------------------------------------- createOrUpdateSettings

\* The document the request saves: the found one with the body's fields set,
\* or a new one with the defaults for what the body leaves out; body.fields
\* names the fields the request body defines.  The id of a new document is
\* the request's slot number.
SettingsToSave(k, u, body, found, t) ==
  IF found # Null
  THEN [found EXCEPT
          !.monthlyBudget = IF "monthlyBudget" \in body.fields THEN body.monthlyBudget ELSE @,
          !.monthStartDay = IF "monthStart" \in body.fields THEN GetDate(body.monthStart) ELSE @]
  ELSE [id            |-> k,
        userId        |-> u,
        monthlyBudget |-> IF "monthlyBudget" \in body.fields THEN body.monthlyBudget ELSE 0,
        monthStartDay |-> IF "monthStart" \in body.fields THEN GetDate(body.monthStart) ELSE GetDate(t),
        notifications |-> [enabled |-> TRUE, thresholdPercent |-> 80],
        categories    |-> DefaultCategories]

\* await BudgetSettings.findOne({userId}) of a request whose body passed the
\* route's validation; the document is then modified or built, and its save
\* issued.
SettingsFindOne(k, u, body) ==
  /\ settingsReq[k].pc = "idle"
  /\ settingsReq' = [settingsReq EXCEPT ![k] =
       [pc |-> "save", userId |-> u, body |-> body, found |-> FindOneSettings(u),
        doc |-> SettingsToSave(k, u, body, FindOneSettings(u), now), res |-> Null]]
  /\ UNCHANGED <<now, settings, expenses, summaryReq, historyReq, statsReq>>

\* The collection without its unique index on userId.
DuplicateKey_NoIndex(u) == FALSE

\* The unique index on userId refuses the insertion of a second document of
\* user u.
DuplicateKey(u) == \E j \in 1 .. Len(settings) : settings[j].userId = u

\* Position of the document with the given id, 0 when there is none.
SettingsById(id) ==
  IF \E j \in 1 .. Len(settings) : settings[j].id = id
  THEN CHOOSE j \in 1 .. Len(settings) : settings[j].id = id
  ELSE 0

\* await settings.save(): a new document is inserted (201) unless the unique
\* index refuses it (500); a found document has its modified paths written
\* (200) unless it has been deleted meanwhile (500).
SettingsSave(k) ==
  LET r == settingsReq[k]
      j == SettingsById(r.doc.id)
  IN  /\ r.pc = "save"
      /\ IF r.found = Null
         THEN IF DuplicateKey(r.userId)
              THEN /\ UNCHANGED settings
                   /\ settingsReq' = [settingsReq EXCEPT ![k].pc = "done",
                                        ![k].res = [status |-> 500, settings |-> Null]]
              ELSE /\ settings' = Append(settings, r.doc)
                   /\ settingsReq' = [settingsReq EXCEPT ![k].pc = "done",
                                        ![k].res = [status |-> 201, settings |-> r.doc]]
         ELSE IF j = 0
              THEN /\ UNCHANGED settings
                   /\ settingsReq' = [settingsReq EXCEPT ![k].pc = "done",
                                        ![k].res = [status |-> 500, settings |-> Null]]
              ELSE /\ settings' = [settings EXCEPT
                        ![j].monthlyBudget =
                          IF r.doc.monthlyBudget # r.found.monthlyBudget
                          THEN r.doc.monthlyBudget ELSE @,
                        ![j].monthStartDay =
                          IF r.doc.monthStartDay # r.found.monthStartDay
                          THEN r.doc.monthStartDay ELSE @]
                   /\ settingsReq' = [settingsReq EXCEPT ![k].pc = "done",
                                        ![k].res = [status |-> 200, settings |-> r.doc]]
      /\ UNCHANGED <<now, expenses, summaryReq, historyReq, statsReq>>

\* A store operation of the request rejects for another reason: 500.
SettingsFails(k) ==
  /\ settingsReq[k].pc = "save"
  /\ settingsReq' = [settingsReq EXCEPT ![k].pc = "done",
                       ![k].res = [status |-> 500, settings |-> Null]]
  /\ UNCHANGED <<now, settings, expenses, summaryReq, historyReq, statsReq>>

\* deleteSettings: findOneAndDelete({userId}); 404 when it matches nothing,
\* which leaves the collection as it is.
DeleteSettings(u) ==
  /\ FindOneSettings(u) # Null
  /\ settings' = SubSeq(settings, 1, SettingsIndex(u) - 1)
                  \o SubSeq(settings, SettingsIndex(u) + 1, Len(settings))
  /\ UNCHANGED <<now, expenses, summaryReq, historyReq, statsReq, settingsReq>>

\* ---------------------------------------------------------- specifications

\* The reference clock: every day from 2023-01-01 on, at the first and at the
\* last millisecond of the day.
FirstRefDay == MakeDay(2023, 0, 1)
RefDays == FirstRefDay .. (FirstRefDay + NumDays - 1)
TimesOfDay == {0, EndOfDayMs}

\* User A's settings document with the schema's default categories.
SettingsDoc(monthlyBudget, monthStartDay, enabled, thresholdPercent) ==
  [id            |-> 0,
   userId        |-> "A",
   monthlyBudget |-> monthlyBudget,
   monthStartDay |-> monthStartDay,
   notifications |-> [enabled |-> enabled, thresholdPercent |-> thresholdPercent],
   categories    |-> DefaultCategories]

\* Period calculator: the clock and the anchor day range over all their
\* values, user A asks for summaries.
InitPeriod ==
  /\ now \in [day : RefDays, ms : TimesOfDay]
  /\ \E d \in 1 .. 31 :
       settings = <<SettingsDoc(1000, d, TRUE, 80)>>
  /\ expenses = <<>>
  /\ summaryReq = [u \in Users |-> IdleSummary]
  /\ historyReq = [u \in Users |-> IdleHistory]
  /\ statsReq = [u \in Users |-> IdleStats]
  /\ settingsReq = [k \in Slots |-> IdleSettings]

NextPeriod ==
  \/ SummaryFindSettings("A")
  \/ SummaryFindExpenses("A")
  \/ SummaryFails("A")

SpecPeriod == InitPeriod /\ [][NextPeriod]_vars

\* History periods: the clock ranges over the days from 2023-12-01 on, user A
\* asks for histories.
FirstHistDay == MakeDay(2023, 11, 1)

InitHistory ==
  /\ now \in [day : FirstHistDay .. (FirstHistDay + HistDays - 1), ms : TimesOfDay]
  /\ \E d \in 1 .. 31 :
       settings = <<SettingsDoc(1000, d, TRUE, 80)>>
  /\ expenses = <<>>
  /\ summaryReq = [u \in Users |-> IdleSummary]
  /\ historyReq = [u \in Users |-> IdleHistory]
  /\ statsReq = [u \in Users |-> IdleStats]
  /\ settingsReq = [k \in Slots |-> IdleSettings]

MonthsQueries ==
  {NoMonths} \cup {Months(n) : n \in -1 .. MaxMonths}

NextHistory ==
  \/ \E q \in MonthsQueries : HistoryFindSettings("A", q)
  \/ HistoryLookup("A")
  \/ HistoryFails("A")

SpecHistory == InitHistory /\ [][NextHistory]_vars

\* The wall clock advances to the next day while a request is in flight.
MaxTicks == 2

FirstClockDay == MakeDay(2024, 1, 28)

Tick ==
  /\ now.day < FirstClockDay + MaxTicks
  /\ now' = [now EXCEPT !.day = now.day + 1]
  /\ UNCHANGED <<settings, expenses, summaryReq, historyReq, statsReq, settingsReq>>

\* History requests of user A while the clock runs from 2024-02-28 on.
InitHistoryClock ==
  /\ now = [day |-> FirstClockDay, ms |-> EndOfDayMs]
  /\ \E d \in 1 .. 31 :
       settings = <<SettingsDoc(1000, d, TRUE, 80)>>
  /\ expenses = <<>>
  /\ summaryReq = [u \in Users |-> IdleSummary]
  /\ historyReq = [u \in Users |-> IdleHistory]
  /\ statsReq = [u \in Users |-> IdleStats]
  /\ settingsReq = [k \in Slots |-> IdleSettings]

NextHistoryClock ==
  \/ \E q \in MonthsQueries : HistoryFindSettings("A", q)
  \/ HistoryLookup("A")
  \/ HistoryFails("A")
  \/ Tick

SpecHistoryClock == InitHistoryClock /\ [][NextHistoryClock]_vars

\* Summaries of user A on 2024-03-10 with anchor day 15, while A and B add
\* expenses and A drops the category 'Gift' from the settings.
SummaryNow == NewDate(2024, 2, 10, 12 * 60 * 60 * 1000)
SummaryAnchor == 15

Amounts == {350, 500, 23499}
Budgets == {0, 1000, 30000}
Thresholds == {0, 80}

\* Request bodies of createExpense: every amount in every category without a
\* date, and one amount at the instants around the period's two ends.
ExpenseBodies ==
  LET period == GetCurrentPeriod(SummaryAnchor, SummaryNow)
      before == [day |-> period.periodStart.day - 1, ms |-> EndOfDayMs]
  IN  [amount : Amounts, category : {"", "Food", "Gift"}, date : {Null}]
      \cup [amount : {500}, category : {"Food"},
            date : {before, period.periodStart, period.periodEnd, NextMs(period.periodEnd)}]

InitSummary ==
  /\ now = SummaryNow
  /\ \E b \in Budgets, e \in BOOLEAN, t \in Thresholds :
       settings = <<[SettingsDoc(b, SummaryAnchor, e, t) EXCEPT
                       !.categories = DefaultCategories \cup {"Gift"}]>>
  /\ expenses = <<>>
  /\ summaryReq = [u \in Users |-> IdleSummary]
  /\ historyReq = [u \in Users |-> IdleHistory]
  /\ statsReq = [u \in Users |-> IdleStats]
  /\ settingsReq = [k \in Slots |-> IdleSettings]

NextSummary ==
  \/ \E body \in ExpenseBodies : CreateExpense("A", body)
  \/ CreateExpense("B", [amount |-> 500, category |-> "Food", date |-> Null])
  \/ UpdateCategories("A", DefaultCategories)
  \/ SummaryFindSettings("A")
  \/ SummaryFindExpenses("A")
  \/ SummaryFails("A")

SpecSummary == InitSummary /\ [][NextSummary]_vars

\* Aggregation: on 2024-03-10 with anchor day 15, A and B add expenses while A
\* asks for summaries and for statistics of the current calendar month or of
\* February 2024.
AggregateBodies ==
  {[amount |-> 350, category |-> "Food", date |-> Null],
   [amount |-> 500, category |-> "Food", date |-> Null],
   [amount |-> 350, category |-> "", date |-> Null],
   [amount |-> 500, category |-> "Food", date |-> NewDate(2024, 1, 20, 0)]}

StatisticsQueries ==
  {Null, [startDate |-> NewDate(2024, 1, 1, 0), endDate |-> NewDate(2024, 1, 29, 0)]}

InitAggregate ==
  /\ now = SummaryNow
  /\ settings = <<SettingsDoc(1000, SummaryAnchor, TRUE, 80)>>
  /\ expenses = <<>>
  /\ summaryReq = [u \in Users |-> IdleSummary]
  /\ historyReq = [u \in Users |-> IdleHistory]
  /\ statsReq = [u \in Users |-> IdleStats]
  /\ settingsReq = [k \in Slots |-> IdleSettings]

NextAggregate ==
  \/ \E body \in AggregateBodies : CreateExpense("A", body)
  \/ CreateExpense("B", [amount |-> 500, category |-> "Food", date |-> Null])
  \/ SummaryFindSettings("A")
  \/ SummaryFindExpenses("A")
  \/ SummaryFails("A")
  \/ \E q \in StatisticsQueries : GetExpensesStatistics("A", q)
  \/ StatisticsFails("A")

SpecAggregate == InitAggregate /\ [][NextAggregate]_vars

\* Missing settings: on 2024-03-10 A has settings and B has none; both add
\* expenses and ask for summaries and histories, and A deletes the settings.
MissingQueries == {NoMonths, Months(2)}

InitMissing ==
  /\ now = SummaryNow
  /\ settings = <<SettingsDoc(1000, SummaryAnchor, TRUE, 80)>>
  /\ expenses = <<>>
  /\ summaryReq = [u \in Users |-> IdleSummary]
  /\ historyReq = [u \in Users |-> IdleHistory]
  /\ statsReq = [u \in Users |-> IdleStats]
  /\ settingsReq = [k \in Slots |-> IdleSettings]

NextMissing ==
  \/ \E u \in Users :
       \/ CreateExpense(u, [amount |-> 500, category |-> "Food", date |-> Null])
       \/ SummaryFindSettings(u)
       \/ SummaryFindExpenses(u)
       \/ SummaryFails(u)
       \/ \E q \in MissingQueries : HistoryFindSettings(u, q)
       \/ HistoryLookup(u)
       \/ HistoryFails(u)
  \/ DeleteSettings("A")

SpecMissing == InitMissing /\ [][NextMissing]_vars

\* Budget changes: on 2024-03-10 A has settings with budget 1000 and anchor
\* day 15, adds expenses and asks for histories of three months while
\* requests to create or update A's settings and to delete them are served.
BudgetBodies ==
  [monthlyBudget : {2000}, monthStart : {NewDate(2024, 0, 5, 0)},
   fields : {{"monthlyBudget"}, {"monthStart"}}]

BudgetQueries == {Months(3)}

InitBudget ==
  /\ now = SummaryNow
  /\ settings = <<SettingsDoc(1000, SummaryAnchor, TRUE, 80)>>
  /\ expenses = <<>>
  /\ summaryReq = [u \in Users |-> IdleSummary]
  /\ historyReq = [u \in Users |-> IdleHistory]
  /\ statsReq = [u \in Users |-> IdleStats]
  /\ settingsReq = [k \in Slots |-> IdleSettings]

NextBudget ==
  \/ CreateExpense("A", [amount |-> 350, category |-> "Food", date |-> Null])
  \/ \E q \in BudgetQueries : HistoryFindSettings("A", q)
  \/ HistoryLookup("A")
  \/ HistoryFails("A")
  \/ \E k \in Slots, body \in BudgetBodies : SettingsFindOne(k, "A", body)
  \/ \E k \in Slots : SettingsSave(k)
  \/ \E k \in Slots : SettingsFails(k)
  \/ DeleteSettings("A")

SpecBudget == InitBudget /\ [][NextBudget]_vars

\* Settings requests: nobody has settings at first; requests to create or
\* update and to delete the settings of A and of B are served concurrently.
SettingsBodies ==
  [monthlyBudget : {2000}, monthStart : {NewDate(2024, 0, 5, 0)},
   fields : {{}, {"monthlyBudget"}, {"monthStart"}}]

InitSettings ==
  /\ now = SummaryNow
  /\ settings = <<>>
  /\ expenses = <<>>
  /\ summaryReq = [u \in Users |-> IdleSummary]
  /\ historyReq = [u \in Users |-> IdleHistory]
  /\ statsReq = [u \in Users |-> IdleStats]
  /\ settingsReq = [k \in Slots |-> IdleSettings]

NextSettings ==
  \/ \E k \in Slots, u \in Users, body \in SettingsBodies : SettingsFindOne(k, u, body)
  \/ \E k \in Slots : SettingsSave(k)
  \/ \E k \in Slots : SettingsFails(k)
  \/ \E u \in Users : DeleteSettings(u)

SpecSettings == InitSettings /\ [][NextSettings]_vars

\* Two users: on 2024-03-10 A, who has settings, adds an expense and asks for
\* summaries and histories while B creates, updates and deletes expenses,
\* also naming A's expenses in update and delete requests, and creates and
\* deletes settings with a single createOrUpdateSettings request.
UserExpenseUpdates ==
  [amount : {900}, date : {SummaryNow}, category : {"Gift"}, fields : {{"amount", "category"}}]

UserSettingsBodies ==
  [monthlyBudget : {2000}, monthStart : {NewDate(2024, 0, 5, 0)}, fields : {{"monthlyBudget"}}]

InitUsers ==
  /\ now = SummaryNow
  /\ settings = <<SettingsDoc(1000, SummaryAnchor, TRUE, 80)>>
  /\ expenses = <<>>
  /\ summaryReq = [u \in Users |-> IdleSummary]
  /\ historyReq = [u \in Users |-> IdleHistory]
  /\ statsReq = [u \in Users |-> IdleStats]
  /\ settingsReq = [k \in Slots |-> IdleSettings]

\* The requests of user B that write.
WritesOfB ==
  \/ CreateExpense("B", [amount |-> 500, category |-> "Food", date |-> Null])
  \/ \E i \in 1 .. MaxExpenses, body \in UserExpenseUpdates : UpdateExpense("B", i, body)
  \/ \E i \in 1 .. MaxExpenses : DeleteExpense("B", i)
  \/ \E body \in UserSettingsBodies : SettingsFindOne(1, "B", body)
  \/ SettingsSave(1)
  \/ SettingsFails(1)
  \/ DeleteSettings("B")

NextUsers ==
  \/ CreateExpense("A", [amount |-> 350, category |-> "Food", date |-> Null])
  \/ SummaryFindSettings("A")
  \/ SummaryFindExpenses("A")
  \/ SummaryFails("A")
  \/ HistoryFindSettings("A", Months(2))
  \/ HistoryLookup("A")
  \/ HistoryFails("A")
  \/ WritesOfB

SpecUsers == InitUsers /\ [][NextUsers]_vars

\* Year boundary: the clock ranges over December 2023 and January 2024 and
\* the anchor day over all its values; A asks for summaries and for histories
\* of two months.
InitYearEnd ==
  /\ now \in [day : FirstHistDay .. (FirstHistDay + YearEndDays - 1), ms : TimesOfDay]
  /\ \E d \in 1 .. 31 : settings = <<SettingsDoc(1000, d, TRUE, 80)>>
  /\ expenses = <<>>
  /\ summaryReq = [u \in Users |-> IdleSummary]
  /\ historyReq = [u \in Users |-> IdleHistory]
  /\ statsReq = [u \in Users |-> IdleStats]
  /\ settingsReq = [k \in Slots |-> IdleSettings]

NextYearEnd ==
  \/ SummaryFindSettings("A")
  \/ SummaryFindExpenses("A")
  \/ SummaryFails("A")
  \/ HistoryFindSettings("A", Months(2))
  \/ HistoryLookup("A")
  \/ HistoryFails("A")

SpecYearEnd == InitYearEnd /\ [][NextYearEnd]_vars

\* Counting: the clock is 2023-03-30 and the anchor day ranges over all its
\* values; A adds expenses dated at the first instant of the anchor day of
\* each of the months concerned and at the last instant of the day before
\* it, and asks for histories of 1 or of MaxMonths months.  No expense is written while
\* a history request is in its loop.
CountNows == {NewDate(2023, 2, 30, 0)}

CountDates ==
  LET d == FindOneSettings("A").monthStartDay
      first(i) == NewDate(GetFullYear(now), GetMonth(now) - i, d, 0)
  IN  UNION {{first(i), [day |-> first(i).day - 1, ms |-> EndOfDayMs]} :
               i \in -1 .. (MaxMonths - 1)}

CountQueries == {Months(1), Months(MaxMonths)}

InitCount ==
  /\ now \in CountNows
  /\ \E d \in 1 .. 31 : settings = <<SettingsDoc(1000, d, TRUE, 80)>>
  /\ expenses = <<>>
  /\ summaryReq = [u \in Users |-> IdleSummary]
  /\ historyReq = [u \in Users |-> IdleHistory]
  /\ statsReq = [u \in Users |-> IdleStats]
  /\ settingsReq = [k \in Slots |-> IdleSettings]

NextCount ==
  \/ /\ historyReq["A"].pc # "loop"
     /\ \E date \in CountDates :
          CreateExpense("A", [amount |-> 350, category |-> "Food", date |-> date])
  \/ \E q \in CountQueries : HistoryFindSettings("A", q)
  \/ HistoryLookup("A")
  \/ HistoryFails("A")

SpecCount == InitCount /\ [][NextCount]_vars

\* Termination: the clock is one of the days from 2023-12-01 on, the anchor
\* day ranges over all its values, and A asks for histories with every kind
\* of months parameter.  The loop is followed for MaxLookups lookups; the
\* finite parameters need at most MaxMonths of them.
MaxLookups == MaxMonths + 1

LiveQueries ==
  {Months(n) : n \in -1 .. MaxMonths}
    \cup {[given |-> TRUE, kind |-> "half", value |-> n] : n \in 0 .. (MaxMonths - 1)}
    \cup {[given |-> TRUE, kind |-> "NaN", value |-> 0],
          [given |-> TRUE, kind |-> "Infinity", value |-> 0]}

InitLive ==
  /\ now \in {NewDate(2023, 11, 1, 0), NewDate(2024, 2, 10, EndOfDayMs)}
  /\ \E d \in 1 .. 31 :
       settings = <<SettingsDoc(1000, d, TRUE, 80)>>
  /\ expenses = <<>>
  /\ summaryReq = [u \in Users |-> IdleSummary]
  /\ historyReq = [u \in Users |-> IdleHistory]
  /\ statsReq = [u \in Users |-> IdleStats]
  /\ settingsReq = [k \in Slots |-> IdleSettings]

\* The store answers the pending expense lookup of A's request.
LiveLookup ==
  /\ historyReq["A"].lookups < MaxLookups
  /\ HistoryLookup("A")

NextLive ==
  \/ \E q \in LiveQueries : HistoryFindSettings("A", q)
  \/ LiveLookup
  \/ HistoryFails("A")

\* Every expense lookup awaited by the loop is answered by the store.
SpecLive == InitLive /\ [][NextLive]_vars /\ WF_vars(LiveLookup)

\* ------------------------------------------------------------------ claims

\* Months counted linearly, so that the month before January 2024 is
\* December 2023.
MonthIndex(t) == GetFullYear(t) * 12 + GetMonth(t)

SummarySent(u) == summaryReq[u].pc = "done" /\ summaryReq[u].res.status = 200
HistorySent(u) == historyReq[u].pc = "done" /\ historyReq[u].res.status = 200

\* C1: for every anchor day d in 1..28 and every reference instant, the
\* summary's period starts on day d at 00:00:00.000 of the reference month
\* when the reference day-of-month is >= d and of the previous month
\* otherwise, and ends at 23:59:59.999 of day d-1 of the month following the
\* start's month (the day before day d of that month); anchor day 15 at
\* 2024-03-10 gives 2024-02-15T00:00:00.000 .. 2024-03-14T23:59:59.999.
C1_CurrentPeriodBounds ==
  (SummarySent("A") /\ summaryReq["A"].settings.monthStartDay \in 1 .. 28) =>
    LET d      == summaryReq["A"].settings.monthStartDay
        t      == summaryReq["A"].now
        period == summaryReq["A"].res.summary.period
    IN  /\ period.start.ms = 0
        /\ GetDate(period.start) = d
        /\ MonthIndex(period.start) =
             IF GetDate(t) >= d THEN MonthIndex(t) ELSE MonthIndex(t) - 1
        /\ period.end.ms = EndOfDayMs
        /\ GetDate(NextMs(period.end)) = d
        /\ MonthIndex(NextMs(period.end)) = MonthIndex(period.start) + 1
        /\ d >= 2 => /\ GetDate(period.end) = d - 1
                     /\ MonthIndex(period.end) = MonthIndex(period.start) + 1
        /\ (d = 15 /\ t.day = MakeDay(2024, 2, 10)) =>
             /\ period.start = [day |-> MakeDay(2024, 1, 15), ms |-> 0]
             /\ period.end = [day |-> MakeDay(2024, 2, 14), ms |-> EndOfDayMs]

\* A summary was sent for anchor day 15 at 2024-03-10, with the period that
\* began in the previous month.
C1_Witness ==
  /\ SummarySent("A")
  /\ summaryReq["A"].settings.monthStartDay = 15
  /\ summaryReq["A"].now.day = MakeDay(2024, 2, 10)
  /\ GetMonth(summaryReq["A"].res.summary.period.start) = 1
  /\ GetDate(summaryReq["A"].res.summary.period.end) = 14

\* C2: for every anchor day in 1..28 and every reference instant, the period
\* of the summary contains the reference instant:
\* periodStart <= referenceInstant <= periodEnd.
C2_PeriodContainsReference ==
  (SummarySent("A") /\ summaryReq["A"].settings.monthStartDay \in 1 .. 28) =>
    /\ NotAfter(summaryReq["A"].res.summary.period.start, summaryReq["A"].now)
    /\ NotAfter(summaryReq["A"].now, summaryReq["A"].res.summary.period.end)

\* A summary was sent whose reference instant is the first millisecond of the
\* anchor day, the start of its period.
C2_Witness ==
  /\ SummarySent("A")
  /\ summaryReq["A"].settings.monthStartDay \in 1 .. 28
  /\ summaryReq["A"].now = summaryReq["A"].res.summary.period.start
  /\ GetDate(summaryReq["A"].now) = summaryReq["A"].settings.monthStartDay

\* C3: for every anchor day and every reference instant, the period of the
\* first entry of a history is the current period, the one getCurrentPeriod
\* returns for the same reference instant, and for anchor days 1..28 it
\* contains the reference instant; entry i is that period shifted i months
\* back.
C3_FirstEntryIsCurrentPeriod ==
  (HistorySent("A") /\ Len(historyReq["A"].res.history) >= 1) =>
    LET r       == historyReq["A"]
        current == GetCurrentPeriod(r.startDay, r.now)
        first   == r.res.history[1].period
    IN  /\ first.start = current.periodStart
        /\ first.end = current.periodEnd
        /\ r.startDay \in 1 .. 28 =>
             NotAfter(first.start, r.now) /\ NotAfter(r.now, first.end)
        /\ \A k \in 1 .. Len(r.res.history) :
             /\ GetDate(r.res.history[k].period.start) = GetDate(first.start)
             /\ MonthIndex(r.res.history[k].period.start) = MonthIndex(first.start) - (k - 1)

\* C4: in a history the periods are strictly descending in time and never
\* overlap: of two adjacent entries the older period ends at 23:59:59.999 of
\* the day before the newer period starts, exactly 1 ms before that start.
C4_AdjacentPeriodsAbut ==
  LET h == historyReq["A"].history
  IN  \A k \in 1 .. Len(h) - 1 :
        /\ NextMs(h[k + 1].period.end) = h[k].period.start
        /\ h[k + 1].period.end.ms = EndOfDayMs
        /\ h[k + 1].period.end.day = h[k].period.start.day - 1
        /\ Before(h[k + 1].period.start, h[k].period.start)
        /\ Before(h[k + 1].period.end, h[k].period.end)
        /\ Before(h[k + 1].period.start, h[k + 1].period.end)

\* A history of six periods was sent for anchor day 31.
C4_Witness ==
  /\ HistorySent("A")
  /\ Len(historyReq["A"].res.history) = 6
  /\ historyReq["A"].startDay = 31

\* C5: for a user with settings and a positive integer months = N (6 when the
\* parameter is not given), the history sent has exactly N entries, one per
\* period, most recent first in the order the periods were generated from the
\* instant the request read the clock, however long the lookups take.
C5_HistoryLengthAndOrder ==
  (HistorySent("A") /\ historyReq["A"].months >= 1) =>
    LET r == historyReq["A"]
        h == r.res.history
    IN  /\ Len(h) = (IF r.query.given THEN r.query.value ELSE 6)
        /\ \A k \in 1 .. Len(h) :
             LET period == HistoryPeriod(r.startDay, r.now, k - 1)
             IN  /\ h[k].period.start = period.periodStart
                 /\ h[k].period.end = period.periodEnd
        /\ \A k \in 1 .. Len(h) - 1 : Before(h[k + 1].period.start, h[k].period.start)

\* A history of the default six entries was sent after the clock had moved
\* on to the next month during the lookups.
C5_Witness ==
  /\ HistorySent("A")
  /\ ~historyReq["A"].query.given
  /\ Len(historyReq["A"].res.history) = 6
  /\ GetMonth(now) # GetMonth(historyReq["A"].now)

\* The summary answered by the step: the expense lookup resolves and the
\* response is sent.
SummaryAnswered(u) ==
  /\ summaryReq[u].pc = "findExpenses"
  /\ summaryReq'[u].pc = "done"
  /\ summaryReq'[u].res.status = 200

\* The positions, in the collection, of user u's expenses dated within period.
PeriodRecords(u, period) ==
  {i \in 1 .. Len(expenses) :
     /\ expenses[i].userId = u
     /\ ~Before(expenses[i].date, period.start)
     /\ ~Before(period.end, expenses[i].date)}

RECURSIVE AmountOf(_)
AmountOf(I) ==
  IF I = {} THEN 0
  ELSE LET i == CHOOSE j \in I : TRUE
       IN  expenses[i].amount + AmountOf(I \ {i})

Abs(x) == IF x < 0 THEN -x ELSE x

\* C6: in every summary, shouldNotify is true exactly when notifications are
\* enabled and the percentUsed reported in that summary (rounded to 2 decimal
\* places) is >= the configured thresholdPercent.
C6_NotifyMatchesReportedPercent ==
  SummarySent("A") =>
    LET r == summaryReq["A"]
    IN  r.res.summary.shouldNotify <=>
          /\ r.settings.notifications.enabled
          /\ r.res.summary.percentUsed >= r.settings.notifications.thresholdPercent * 100

\* C6 as amended: shouldNotify is true exactly when notifications are enabled
\* and the unrounded percentage, totalSpent / monthlyBudget * 100 or 0 for a
\* zero budget, is >= thresholdPercent.
C6_NotifyMatchesExactPercent ==
  SummarySent("A") =>
    LET r  == summaryReq["A"]
        sm == r.res.summary
    IN  sm.shouldNotify <=>
          /\ r.settings.notifications.enabled
          /\ IF sm.monthlyBudget > 0
             THEN sm.totalSpent * 100 >= r.settings.notifications.thresholdPercent * sm.monthlyBudget
             ELSE 0 >= r.settings.notifications.thresholdPercent

\* A summary was sent that reports percentUsed 80.00 for 23999 spent of 30000
\* with notifications enabled at threshold 80, and shouldNotify false.
C6_Witness ==
  /\ SummarySent("A")
  /\ summaryReq["A"].settings.notifications.enabled
  /\ summaryReq["A"].settings.notifications.thresholdPercent = 80
  /\ summaryReq["A"].res.summary.totalSpent = 23999
  /\ summaryReq["A"].res.summary.monthlyBudget = 30000
  /\ summaryReq["A"].res.summary.percentUsed = 8000
  /\ ~summaryReq["A"].res.summary.shouldNotify

\* C7: the percentUsed of a summary is (totalSpent / monthlyBudget) * 100
\* rounded to 2 decimal places (the nearest hundredth) when monthlyBudget > 0,
\* 85.00 for a budget of 1000 with 850 spent, and 0 when monthlyBudget is 0.
C7_PercentUsedRounded ==
  SummarySent("A") =>
    LET sm == summaryReq["A"].res.summary
    IN  /\ sm.monthlyBudget > 0 =>
             /\ 2 * Abs(sm.totalSpent * 10000 - sm.percentUsed * sm.monthlyBudget)
                  <= sm.monthlyBudget
             /\ sm.percentUsed >= 0
        /\ sm.monthlyBudget = 0 => sm.percentUsed = 0
        /\ (sm.monthlyBudget = 1000 /\ sm.totalSpent = 850) => sm.percentUsed = 8500

\* A summary was sent for a budget of 1000 with 850 spent.
C7_Witness ==
  /\ SummarySent("A")
  /\ summaryReq["A"].res.summary.monthlyBudget = 1000
  /\ summaryReq["A"].res.summary.totalSpent = 850
  /\ summaryReq["A"].res.summary.percentUsed = 8500

\* C8: in every summary, totalSpent is the sum of the amounts of the user's
\* expenses dated within the current period, remaining + totalSpent =
\* monthlyBudget, and remaining is negative whenever totalSpent exceeds
\* monthlyBudget.
C8_TotalAndRemaining ==
  [][SummaryAnswered("A") =>
       LET sm == summaryReq'["A"].res.summary
       IN  /\ sm.totalSpent = AmountOf(PeriodRecords("A", sm.period))
           /\ sm.expensesCount = Cardinality(PeriodRecords("A", sm.period))
           /\ sm.period.start = GetCurrentPeriod(SummaryAnchor, summaryReq'["A"].now).periodStart
           /\ sm.period.end = GetCurrentPeriod(SummaryAnchor, summaryReq'["A"].now).periodEnd
           /\ sm.remaining + sm.totalSpent = sm.monthlyBudget
           /\ sm.totalSpent > sm.monthlyBudget => sm.remaining < 0]_vars

\* A summary was sent that reports an overspent budget while the collection
\* also holds an expense dated outside the period.
C8_Witness ==
  /\ SummarySent("A")
  /\ summaryReq["A"].res.summary.monthlyBudget = 1000
  /\ summaryReq["A"].res.summary.totalSpent = 23499
  /\ summaryReq["A"].res.summary.remaining = -22499
  /\ \E i \in 1 .. Len(expenses) :
       /\ expenses[i].userId = "A"
       /\ Before(summaryReq["A"].res.summary.period.end, expenses[i].date)

\* C9: in every summary, notificationMessage is non-null if and only if
\* shouldNotify is true, and when present it embeds percentUsed rounded to 1
\* decimal place (the nearest tenth of totalSpent / monthlyBudget * 100, or 0
\* for a zero budget).
C9_MessageIffNotify ==
  SummarySent("A") =>
    LET sm == summaryReq["A"].res.summary
    IN  /\ (sm.notificationMessage # Null) <=> sm.shouldNotify
        /\ sm.notificationMessage # Null =>
             IF sm.monthlyBudget > 0
             THEN 2 * Abs(sm.totalSpent * 1000 - sm.notificationMessage.percent * sm.monthlyBudget)
                    <= sm.monthlyBudget
             ELSE sm.notificationMessage.percent = 0

\* A summary was sent whose message embeds 80.0 for 23999 spent of 30000.
C9_Witness ==
  /\ SummarySent("A")
  /\ summaryReq["A"].res.summary.shouldNotify
  /\ summaryReq["A"].res.summary.monthlyBudget = 30000
  /\ summaryReq["A"].res.summary.totalSpent = 23999
  /\ summaryReq["A"].res.summary.notificationMessage.percent = 800

\* C10: spentByCategory has exactly one key per distinct category occurring
\* in the period's records (an empty category counted as 'Other'), whether or
\* not the category is in settings.categories; each value is the sum of the
\* amounts of the records of that category, and the values add up to
\* totalSpent.
C10_SpentByCategory ==
  [][SummaryAnswered("A") =>
       LET sm      == summaryReq'["A"].res.summary
           records == PeriodRecords("A", sm.period)
           cat(i)  == IF expenses[i].category = "" THEN "Other" ELSE expenses[i].category
           sbc     == sm.spentByCategory
       IN  /\ DOMAIN sbc = {cat(i) : i \in records}
           /\ \A c \in DOMAIN sbc : sbc[c] = AmountOf({i \in records : cat(i) = c})
           /\ sm.totalSpent = AmountOf(records)]_vars

\* A summary was sent with a bucket for 'Gift', which is not among the
\* settings' categories, and one for 'Other', from a request without category.
C10_Witness ==
  /\ SummarySent("A")
  /\ "Gift" \notin summaryReq["A"].settings.categories
  /\ DOMAIN summaryReq["A"].res.summary.spentByCategory = {"Gift", "Other"}

\* The statistics answered by the step.
StatsAnswered(u) ==
  /\ statsReq'[u] # statsReq[u]
  /\ statsReq'[u].res.status = 200

\* C11: when no expense of the user is dated within the requested period,
\* the statistics are totalAmount 0, count 0, minAmount 0, maxAmount 0 and
\* avgAmount 0; when none is dated within the current budget period, the
\* summary has totalSpent 0, expensesCount 0 and an empty spentByCategory.
\* Both are answered with success.
C11_EmptyAggregatesAreZero ==
  [][LET res == statsReq'["A"].res
         sm  == summaryReq'["A"].res.summary
     IN  /\ (StatsAnswered("A") /\ PeriodRecords("A", res.period) = {}) =>
               res.statistics = [totalAmount |-> 0, avgAmount |-> [num |-> 0, den |-> 1],
                                 minAmount |-> 0, maxAmount |-> 0, count |-> 0]
         /\ (SummaryAnswered("A") /\ PeriodRecords("A", sm.period) = {}) =>
               /\ sm.totalSpent = 0
               /\ sm.expensesCount = 0
               /\ DOMAIN sm.spentByCategory = {}
               /\ sm.percentUsed = 0]_vars

\* Statistics of February and a summary were answered with zeros while the
\* collection holds expenses of the other user only.
C11_Witness ==
  /\ Len(expenses) > 0
  /\ \A i \in 1 .. Len(expenses) : expenses[i].userId = "B"
  /\ statsReq["A"].pc = "done"
  /\ statsReq["A"].res.status = 200
  /\ statsReq["A"].res.period.end = NewDate(2024, 1, 29, EndOfDayMs)
  /\ statsReq["A"].res.statistics.count = 0
  /\ statsReq["A"].res.statistics.avgAmount.num = 0
  /\ SummarySent("A")
  /\ summaryReq["A"].res.summary.expensesCount = 0
  /\ DOMAIN summaryReq["A"].res.summary.spentByCategory = {}

\* Every ordering of the sequence es.
Permuted(es) ==
  {[k \in 1 .. Len(es) |-> es[p[k]]] : p \in Permutations(1 .. Len(es))}

C13_NonPositiveMonthsRejected ==
  (/\ historyReq["A"].pc = "done"
   /\ historyReq["A"].query # Null
   /\ historyReq["A"].query.given
   /\ historyReq["A"].query.value <= 0)
    => /\ historyReq["A"].res.status \notin {200}
       /\ historyReq["A"].lookups = 0

\* C14: when the settings lookup of a summary or history request finds no
\* BudgetSettings of the user, the request ends at once with status 404 and
\* without data, and no expense lookup is issued.
C14_MissingSettingsNotFound ==
  [][\A u \in Users :
       /\ (SummaryFindSettings(u) /\ FindOneSettings(u) = Null) =>
             /\ summaryReq'[u].pc = "done"
             /\ summaryReq'[u].res = [status |-> 404, summary |-> Null]
       /\ ((\E q \in MissingQueries : HistoryFindSettings(u, q)) /\ FindOneSettings(u) = Null) =>
             /\ historyReq'[u].pc = "done"
             /\ historyReq'[u].res = [status |-> 404, history |-> <<>>]
             /\ historyReq'[u].lookups = 0]_vars

\* B, who has an expense and no settings, was answered 404 for a summary and
\* for a history of two months.
C14_Witness ==
  /\ FindOneSettings("B") = Null
  /\ \E i \in 1 .. Len(expenses) : expenses[i].userId = "B"
  /\ summaryReq["B"].pc = "done"
  /\ summaryReq["B"].res.status = 404
  /\ historyReq["B"].pc = "done"
  /\ historyReq["B"].query = Months(2)
  /\ historyReq["B"].res.status = 404
  /\ historyReq["B"].lookups = 0

\* C15: when the expense lookup of iteration i of a history request fails,
\* the request ends with status 500 and without any of the entries computed
\* for the earlier periods, and the lookups issued by the request are the
\* i + 1 up to the failed one: none for a later period, none repeated.
C15_LookupFailureEndsHistory ==
  [][(HistoryFails("A") /\ historyReq["A"].pc = "loop") =>
       /\ historyReq'["A"].pc = "done"
       /\ historyReq'["A"].res = [status |-> 500, history |-> <<>>]
       /\ historyReq'["A"].lookups = historyReq["A"].i + 1
       /\ Len(historyReq["A"].history) = historyReq["A"].i]_vars

\* A history request of three months ended with status 500 at its second
\* lookup, after the entry of the first period had been computed.
C15_Witness ==
  /\ historyReq["A"].pc = "done"
  /\ historyReq["A"].res.status = 500
  /\ historyReq["A"].res.history = <<>>
  /\ historyReq["A"].months = 3
  /\ historyReq["A"].lookups = 2

\* The history answered by the step.
HistoryAnswered(u) ==
  /\ historyReq[u].pc = "loop"
  /\ historyReq'[u].pc = "done"
  /\ historyReq'[u].res.status = 200

\* C16: a history request takes the settings the collection holds when the
\* request starts and keeps them to its end; every entry of its response
\* carries that monthlyBudget, and remaining is that monthlyBudget minus the
\* entry's totalSpent, whatever is saved to the settings in between.
C16_BudgetReadOnce ==
  [][LET r == historyReq["A"]
     IN  /\ ((\E q \in BudgetQueries : HistoryFindSettings("A", q))
              /\ FindOneSettings("A") # Null) =>
               historyReq'["A"].settings = FindOneSettings("A")
         /\ (r.pc = "loop" /\ (historyReq'["A"].pc = "loop" \/ HistoryAnswered("A"))) =>
               historyReq'["A"].settings = r.settings
         /\ HistoryAnswered("A") =>
               (\A j \in 1 .. Len(historyReq'["A"].res.history) :
                  LET entry == historyReq'["A"].res.history[j]
                  IN  /\ entry.monthlyBudget = r.settings.monthlyBudget
                      /\ entry.remaining = r.settings.monthlyBudget - entry.totalSpent)]_vars

\* A history of three months was answered with budget 1000 on every entry
\* and an expense counted, by a request that is still the last one, while the
\* collection holds the budget 2000 saved by an update.
C16_Witness ==
  /\ HistorySent("A")
  /\ Len(historyReq["A"].res.history) = 3
  /\ \A j \in 1 .. 3 : historyReq["A"].res.history[j].monthlyBudget = 1000
  /\ historyReq["A"].res.history[2].remaining = 650
  /\ FindOneSettings("A") # Null
  /\ FindOneSettings("A").monthlyBudget = 2000
  /\ \E k \in Slots : settingsReq[k].pc = "done" /\ settingsReq[k].res.status = 200

\* C17: whatever the interleaving of createOrUpdateSettings and
\* deleteSettings requests, the collection holds at most one BudgetSettings
\* document per user, and the save of a request that found no settings is
\* refused with an error, leaving the collection as it is, when the user has
\* a document by then.
C17_OneSettingsPerUser ==
  [][/\ \A u \in Users :
          Cardinality({j \in 1 .. Len(settings') : settings'[j].userId = u}) <= 1
     /\ \A k \in Slots :
          (/\ SettingsSave(k)
           /\ settingsReq[k].found = Null
           /\ FindOneSettings(settingsReq[k].userId) # Null) =>
             /\ settings' = settings
             /\ settingsReq'[k].res.status = 500]_vars

\* Two requests for A both found no settings; the first created them and the
\* second was refused.
C17_Witness ==
  /\ Len(settings) = 1
  /\ settings[1].userId = "A"
  /\ settingsReq[1].pc = "done"
  /\ settingsReq[2].pc = "done"
  /\ settingsReq[1].userId = "A"
  /\ settingsReq[2].userId = "A"
  /\ settingsReq[1].found = Null
  /\ settingsReq[2].found = Null
  /\ settingsReq[1].res.status = 201
  /\ settingsReq[2].res.status = 500
  /\ settings[1].id = 1

\* The documents of user u in a collection.
OwnedBy(docs, u) == SelectSeq(docs, LAMBDA d : d.userId = u)

\* The documents of es dated within the period.
DatedWithin(es, period) ==
  SelectSeq(es, LAMBDA e : /\ ~Before(e.date, period.periodStart)
                           /\ ~Before(period.periodEnd, e.date))

\* C18: a request of user B that creates, updates or deletes expenses or
\* settings leaves A's expenses, A's settings and A's requests as they are,
\* and each summary and history entry computed for A is the one computed from
\* A's own settings and A's own expenses alone; so no interleaving of B's
\* requests changes what A is answered.
C18_UsersDoNotInterfere ==
  [][LET r == summaryReq["A"]
         h == historyReq["A"]
         entries == historyReq'["A"].history
     IN  /\ WritesOfB =>
               /\ OwnedBy(expenses', "A") = OwnedBy(expenses, "A")
               /\ OwnedBy(settings', "A") = OwnedBy(settings, "A")
               /\ summaryReq'["A"] = summaryReq["A"]
               /\ historyReq'["A"] = historyReq["A"]
         /\ (SummaryFindSettings("A") /\ OwnedBy(settings, "A") # <<>>) =>
               summaryReq'["A"].settings = OwnedBy(settings, "A")[1]
         /\ (HistoryFindSettings("A", Months(2))
              /\ OwnedBy(settings, "A") # <<>>) =>
               historyReq'["A"].settings = OwnedBy(settings, "A")[1]
         /\ SummaryAnswered("A") =>
               summaryReq'["A"].res.summary =
                 Summary(r.settings, r.period, DatedWithin(OwnedBy(expenses, "A"), r.period))
         /\ HistoryLookup("A") =>
               entries[Len(entries)] =
                 HistoryEntry(h.settings, HistoryPeriod(h.startDay, h.now, h.i),
                              DatedWithin(OwnedBy(expenses, "A"),
                                          HistoryPeriod(h.startDay, h.now, h.i)))]_vars

\* A was answered a summary and a history that count A's one expense while
\* the collection holds an expense of B dated within the same period and
\* settings of B.
C18_Witness ==
  /\ SummarySent("A")
  /\ summaryReq["A"].res.summary.totalSpent = 350
  /\ HistorySent("A")
  /\ historyReq["A"].res.history[2].totalSpent = 350
  /\ \E i \in 1 .. Len(expenses) :
       expenses[i].userId = "B" /\ expenses[i].date = SummaryNow /\ expenses[i].amount = 900
  /\ FindOneSettings("B") # Null

\* t lies in the month m (0-based) of the year y.
InMonth(t, y, m) == GetFullYear(t) = y /\ GetMonth(t) = m

\* The period of entry j of the last history response, and the month that
\* entry is computed for, counted linearly.
HistoryPeriodOf(j) == historyReq["A"].res.history[j].period
HistoryMonthOf(j) == MonthIndex(historyReq["A"].now) - (j - 1)

\* C19 as stated: in a summary for an instant in January before the anchor
\* day, periodStart is in December of the previous year; in a summary for an
\* instant in December on or after the anchor day, periodEnd is in January of
\* the next year; and the history period computed for a December starts in
\* that December and ends in the following January.
C19_YearBoundary ==
  /\ SummarySent("A") =>
       LET t == summaryReq["A"].now
           d == summaryReq["A"].settings.monthStartDay
           p == summaryReq["A"].res.summary.period
       IN  /\ (GetMonth(t) = 0 /\ GetDate(t) < d) =>
                 InMonth(p.start, GetFullYear(t) - 1, 11)
           /\ (GetMonth(t) = 11 /\ GetDate(t) >= d) =>
                 InMonth(p.end, GetFullYear(t) + 1, 0)
  /\ HistorySent("A") =>
       \A j \in 1 .. Len(historyReq["A"].res.history) :
         HistoryMonthOf(j) % 12 = 11 =>
           /\ InMonth(HistoryPeriodOf(j).start, HistoryMonthOf(j) \div 12, 11)
           /\ InMonth(HistoryPeriodOf(j).end, HistoryMonthOf(j) \div 12 + 1, 0)

\* C19, amended: the same, except that with anchor day 1 the period of a
\* December is that calendar month and ends on 31 December at 23:59:59.999
\* of the same year; periodEnd is in January of the next year for the anchor
\* days 2 to 31.
C19_YearBoundaryFromDay2 ==
  /\ SummarySent("A") =>
       LET t == summaryReq["A"].now
           d == summaryReq["A"].settings.monthStartDay
           p == summaryReq["A"].res.summary.period
       IN  /\ (GetMonth(t) = 0 /\ GetDate(t) < d) =>
                 /\ InMonth(p.start, GetFullYear(t) - 1, 11)
                 /\ GetDate(p.start) = d
           /\ (GetMonth(t) = 11 /\ GetDate(t) >= d /\ d >= 2) =>
                 /\ InMonth(p.end, GetFullYear(t) + 1, 0)
                 /\ GetDate(p.end) = d - 1
           /\ (GetMonth(t) = 11 /\ d = 1) =>
                 p.end = NewDate(GetFullYear(t), 11, 31, EndOfDayMs)
  /\ HistorySent("A") =>
       LET d == historyReq["A"].startDay
       IN  \A j \in 1 .. Len(historyReq["A"].res.history) :
             HistoryMonthOf(j) % 12 = 11 =>
               /\ InMonth(HistoryPeriodOf(j).start, HistoryMonthOf(j) \div 12, 11)
               /\ GetDate(HistoryPeriodOf(j).start) = d
               /\ d >= 2 =>
                     /\ InMonth(HistoryPeriodOf(j).end, HistoryMonthOf(j) \div 12 + 1, 0)
                     /\ GetDate(HistoryPeriodOf(j).end) = d - 1
               /\ d = 1 =>
                     HistoryPeriodOf(j).end = NewDate(HistoryMonthOf(j) \div 12, 11, 31, EndOfDayMs)

\* On 2023-12-20 with anchor day 1, a summary and a history were answered
\* whose current period is 1 December to 31 December 2023.
C19_Witness ==
  /\ SummarySent("A")
  /\ summaryReq["A"].settings.monthStartDay = 1
  /\ summaryReq["A"].now.day = MakeDay(2023, 11, 20)
  /\ summaryReq["A"].res.summary.period.start = NewDate(2023, 11, 1, 0)
  /\ summaryReq["A"].res.summary.period.end = NewDate(2023, 11, 31, EndOfDayMs)
  /\ HistorySent("A")
  /\ HistoryPeriodOf(1).end = NewDate(2023, 11, 31, EndOfDayMs)

\* The number of days of the month with linear index n.
DaysOfMonth(n) == DaysInMonth(n \div 12, n % 12)

\* C20: when the anchor day d exceeds the number of days L of the month the
\* period is computed to start in, periodStart is day d - L of the following
\* month at 00:00:00.000; likewise, when d - 1 exceeds the number of days L
\* of the month periodEnd is computed for, periodEnd is day d - 1 - L of the
\* month after it, at 23:59:59.999.  Neither is clamped to the month's last
\* day.
C20_AnchorOverflows ==
  SummarySent("A") =>
    LET t == summaryReq["A"].now
        d == summaryReq["A"].settings.monthStartDay
        p == summaryReq["A"].res.summary.period
        n == IF GetDate(t) >= d THEN MonthIndex(t) ELSE MonthIndex(t) - 1
    IN  /\ d > DaysOfMonth(n) =>
              /\ MonthIndex(p.start) = n + 1
              /\ GetDate(p.start) = d - DaysOfMonth(n)
              /\ p.start.ms = 0
        /\ d - 1 > DaysOfMonth(n + 1) =>
              /\ MonthIndex(p.end) = n + 2
              /\ GetDate(p.end) = d - 1 - DaysOfMonth(n + 1)
              /\ p.end.ms = EndOfDayMs

\* On 2023-05-05 with anchor day 31 a summary was answered whose period
\* starts on 1 May, the 31st day counted from 1 April.
C20_Witness ==
  /\ SummarySent("A")
  /\ summaryReq["A"].settings.monthStartDay = 31
  /\ summaryReq["A"].now.day = MakeDay(2023, 4, 5)
  /\ summaryReq["A"].res.summary.period.start = NewDate(2023, 4, 1, 0)
  /\ summaryReq["A"].res.summary.period.end = NewDate(2023, 4, 30, EndOfDayMs)

\* The date lies within the period, both ends included.
Within(date, period) == ~Before(date, period.start) /\ ~Before(period.end, date)

\* C21: when no expense is written during a history request of N >= 1
\* months, each expense of the user dated from the start of the oldest
\* period to the end of the newest one lies in the period of exactly one
\* entry, and each entry's expensesCount and totalSpent are the number and
\* the sum of the user's expenses dated within its period.
C21_CountedExactlyOnce ==
  [][HistoryAnswered("A") =>
       LET history == historyReq'["A"].res.history
           N       == Len(history)
       IN  /\ N >= 1
           /\ \A k \in 1 .. Len(expenses) :
                (/\ expenses[k].userId = "A"
                 /\ ~Before(expenses[k].date, history[N].period.start)
                 /\ ~Before(history[1].period.end, expenses[k].date)) =>
                   Cardinality({j \in 1 .. N : Within(expenses[k].date, history[j].period)}) = 1
           /\ \A j \in 1 .. N :
                /\ history[j].expensesCount = Cardinality(PeriodRecords("A", history[j].period))
                /\ history[j].totalSpent = AmountOf(PeriodRecords("A", history[j].period))]_vars

\* With anchor day 31 on 2023-03-30, a history of three months was answered
\* that counts one expense dated at the last instant of its oldest period,
\* 2 March, and one at the first instant of the next, 3 March, one in each.
C21_Witness ==
  /\ HistorySent("A")
  /\ historyReq["A"].startDay = 31
  /\ historyReq["A"].now = NewDate(2023, 2, 30, 0)
  /\ Len(historyReq["A"].res.history) = 3
  /\ historyReq["A"].res.history[3].period.end = NewDate(2023, 2, 2, EndOfDayMs)
  /\ historyReq["A"].res.history[3].expensesCount = 1
  /\ historyReq["A"].res.history[2].period.start = NewDate(2023, 2, 3, 0)
  /\ historyReq["A"].res.history[2].expensesCount = 1
  /\ historyReq["A"].res.history[1].expensesCount = 0
  /\ Len(expenses) = 2
  /\ expenses[1].date = NewDate(2023, 2, 2, EndOfDayMs)
  /\ expenses[2].date = NewDate(2023, 2, 3, 0)

\* C23: for every anchor day in 1..31 and every reference instant, the period
\* of the summary has periodStart before periodEnd, starts at 00:00:00.000
\* and ends at 23:59:59.999, and covers between 28 and 31 calendar days, so
\* that it spans 28 to 31 whole days minus one millisecond, also when the
\* anchor day overflows a short month.
C23_PeriodLength ==
  SummarySent("A") =>
    LET p == summaryReq["A"].res.summary.period
    IN  /\ Before(p.start, p.end)
        /\ p.start.ms = 0
        /\ p.end.ms = EndOfDayMs
        /\ (p.end.day - p.start.day + 1) \in 28 .. 31

\* On 2023-03-01 with anchor day 31 a summary was answered whose period
\* starts on 3 March, the 31st day counted from 1 February, and ends on
\* 30 March: 28 days.
C23_Witness ==
  /\ SummarySent("A")
  /\ summaryReq["A"].settings.monthStartDay = 31
  /\ summaryReq["A"].now = NewDate(2023, 2, 1, 0)
  /\ summaryReq["A"].res.summary.period.start = NewDate(2023, 2, 3, 0)
  /\ summaryReq["A"].res.summary.period.end = NewDate(2023, 2, 30, EndOfDayMs)
  /\ summaryReq["A"].res.summary.period.end.day
       - summaryReq["A"].res.summary.period.start.day + 1 = 28

\* The lookups issued so far by A's history request do not exceed the number
\* of months it asked for.
LookupsWithinMonths ==
  historyReq["A"].lookups > 0 =>
    \/ historyReq["A"].query.kind = "Infinity"
    \/ /\ historyReq["A"].query.kind \in {"integer", "half"}
       /\ historyReq["A"].lookups <= historyReq["A"].query.value

\* A's history request that is in its loop is eventually answered.
HistoryResponds == (historyReq["A"].pc = "loop") ~> (historyReq["A"].pc = "done")

\* C22: every history request eventually produces a response (a history or
\* an error), having issued at most as many expense lookups as the number of
\* months it asked for, whatever the months parameter is.
C22_HistoryTerminates == HistoryResponds /\ [](LookupsWithinMonths)

====
